---- MODULE Spec2Model ----
(***************************************************************************)
(* A model of pkg/storage/gcs.go: the GCS storage client of                *)
(* clickhouse-backup.  Every operation borrows a client from an object     *)
(* pool, talks to the bucket through it and gives the client back          *)
(* (ReturnObject) or destroys it (InvalidateObject).                       *)
(*                                                                         *)
(* Strings are sequences of one-character strings: "a/x" is                *)
(* <<"a", "/", "x">> and "" is <<>>, so that path.Join, strings.TrimPrefix *)
(* and the prefix/delimiter listing are computed, not assumed.             *)
(***************************************************************************)
EXTENDS Integers, Sequences, FiniteSets, TLC

(***************************************************************************)
(* Bounds of the model.                                                    *)
(***************************************************************************)
\* concurrent callers
NumProcs == 2
\* operations started per run, all callers together
MaxOps == 2
\* longest input stream given to PutFile
MaxLen == 3
\* the copy buffer of PutFile, 512*1024 bytes in the code, scaled down
BufSize == 2
\* largest configured ClientPoolSize
MaxPool == 2
\* longest root and longest relative path of the key mapping
MaxStr == 2

Procs == 1..NumProcs

(***************************************************************************)
(* Strings.                                                                *)
(***************************************************************************)
Slash == "/"
Dot == "."

\* s[from..] (1-based), "" when from is past the end
Drop(s, from) == SubSeq(s, from, Len(s))

\* strings.HasPrefix
HasPrefix(s, prefix) ==
    /\ Len(s) >= Len(prefix)
    /\ SubSeq(s, 1, Len(prefix)) = prefix

\* strings.TrimPrefix: s without the leading prefix, s itself if it has none
TrimPrefix(s, prefix) ==
    IF HasPrefix(s, prefix) THEN Drop(s, Len(prefix) + 1) ELSE s

\* index of the first "/" of s, 0 if there is none
RECURSIVE IndexSlashFrom(_, _)
IndexSlashFrom(s, i) ==
    IF i > Len(s) THEN 0
    ELSE IF s[i] = Slash THEN i
    ELSE IndexSlashFrom(s, i + 1)

IndexSlash(s) == IndexSlashFrom(s, 1)

(***************************************************************************)
(* path.Clean and path.Join of the Go standard library, as the code calls  *)
(* them.  CleanLoop is the loop of path.Clean: r is the read index         *)
(* (0-based, as in Go), out the output buffer, dotdot the length of out    *)
(* that ".." may not remove.                                               *)
(***************************************************************************)
\* the ".." case: out.w--, then out.w-- while out.w > dotdot and the byte at
\* out.w is not "/"; the result is the first w bytes of out
RECURSIVE BackUp(_, _, _)
BackUp(out, w, dotdot) ==
    IF w > dotdot /\ out[w + 1] /= Slash
    THEN BackUp(out, w - 1, dotdot)
    ELSE SubSeq(out, 1, w)

\* the length of the path element that starts at (0-based) index r
RECURSIVE ElemLen(_, _)
ElemLen(p, r) ==
    IF r < Len(p) /\ p[r + 1] /= Slash THEN 1 + ElemLen(p, r + 1) ELSE 0

RECURSIVE CleanLoop(_, _, _, _, _)
CleanLoop(p, rooted, r, out, dotdot) ==
    LET n == Len(p) IN
    IF r >= n THEN out
    ELSE IF p[r + 1] = Slash
        THEN CleanLoop(p, rooted, r + 1, out, dotdot)
    ELSE IF p[r + 1] = Dot /\ (r + 1 = n \/ p[r + 2] = Slash)
        THEN CleanLoop(p, rooted, r + 1, out, dotdot)
    ELSE IF p[r + 1] = Dot /\ p[r + 2] = Dot /\ (r + 2 = n \/ p[r + 3] = Slash)
        THEN IF Len(out) > dotdot
             THEN CleanLoop(p, rooted, r + 2,
                            BackUp(out, Len(out) - 1, dotdot), dotdot)
             ELSE IF ~rooted
             THEN LET o2 == (IF Len(out) > 0 THEN Append(out, Slash) ELSE out)
                            \o <<Dot, Dot>>
                  IN CleanLoop(p, rooted, r + 2, o2, Len(o2))
             ELSE CleanLoop(p, rooted, r + 2, out, dotdot)
    ELSE LET o1 == IF (rooted /\ Len(out) /= 1) \/ (~rooted /\ Len(out) /= 0)
                   THEN Append(out, Slash) ELSE out
             k == ElemLen(p, r)
         IN CleanLoop(p, rooted, r + k, o1 \o SubSeq(p, r + 1, r + k), dotdot)

Clean(p) ==
    IF p = <<>> THEN <<Dot>>
    ELSE LET rooted == p[1] = Slash
             out == IF rooted THEN CleanLoop(p, TRUE, 1, <<Slash>>, 1)
                    ELSE CleanLoop(p, FALSE, 0, <<>>, 0)
         IN IF out = <<>> THEN <<Dot>> ELSE out

\* path.Join(a, b): empty elements are dropped, the rest joined by "/" and
\* cleaned; "" when both are empty
Join(a, b) ==
    IF a = <<>> /\ b = <<>> THEN <<>>
    ELSE IF a = <<>> THEN Clean(b)
    ELSE IF b = <<>> THEN Clean(a)
    ELSE Clean(a \o <<Slash>> \o b)

(***************************************************************************)
(* The bucket.  store maps <<bucket, key>> to the bytes of the object      *)
(* stored there; a pair outside its domain is an object that does not      *)
(* exist.                                                                  *)
(***************************************************************************)
VARIABLES
    cfg,        \* gcs.Config: Path, ObjectDiskPath, ClientPoolSize
    store,      \* the objects of the buckets
    idle,       \* clientPool: the idle clients, most recently returned first
    allocated,  \* clientPool: the clients out on loan
    destroyed,  \* clients the pool has destroyed
    created,    \* clients the factory has made so far; they are 1..created
    st,         \* per caller: the operation it runs, its locals, its result
    started,    \* operations started so far
    faulted,    \* history: clients on which a backend call returned an error
    lastPut     \* history: key -> the data of the PutFile that last returned
                \* nil for it, while nothing else has written the key since

vars == <<cfg, store, idle, allocated, destroyed, created, st, started,
          faulted, lastPut>>

\* gcs.Config.Bucket
Bucket == "bkt"

Exists(b, k) == <<b, k>> \in DOMAIN store

StorePut(s, b, k, content) ==
    [x \in DOMAIN s \cup {<<b, k>>} |-> IF x = <<b, k>> THEN content ELSE s[x]]

StoreDelete(s, b, k) == [x \in DOMAIN s \ {<<b, k>>} |-> s[x]]

\* the history lastPut after key k of the bucket was written by something
\* other than a PutFile that returned nil
Forget(lp, b, k) ==
    IF b = Bucket THEN [x \in DOMAIN lp \ {k} |-> lp[x]] ELSE lp

Remember(lp, k, data) ==
    [x \in DOMAIN lp \cup {k} |-> IF x = k THEN data ELSE lp[x]]

(***************************************************************************)
(* The order of a listing: byte order of the keys.                         *)
(***************************************************************************)
Letters ==
    <<"a", "b", "c", "d", "e", "f", "g", "h", "i", "j", "k", "l", "m",
      "n", "o", "p", "q", "r", "s", "t", "u", "v", "w", "x", "y", "z">>

\* the byte of a character of a key: ".", "/" or a lower-case letter
Code(c) ==
    CASE c = "." -> 46
      [] c = "/" -> 47
      [] OTHER -> 96 + (CHOOSE i \in 1..Len(Letters) : Letters[i] = c)

RECURSIVE StrLess(_, _)
StrLess(s, t) ==
    IF t = <<>> THEN FALSE
    ELSE IF s = <<>> THEN TRUE
    ELSE IF s[1] /= t[1] THEN Code(s[1]) < Code(t[1])
    ELSE StrLess(Tail(s), Tail(t))

RECURSIVE SortStrs(_)
SortStrs(S) ==
    IF S = {} THEN <<>>
    ELSE LET m == CHOOSE x \in S : \A y \in S \ {x} : StrLess(x, y)
         IN <<m>> \o SortStrs(S \ {m})

(***************************************************************************)
(* Bucket.Objects(ctx, &storage.Query{Prefix, Delimiter}): the items the   *)
(* iterator yields.  Without a delimiter, every object whose key starts    *)
(* with the prefix.  With delimiter "/", the objects whose key has no "/"  *)
(* after the prefix, and one entry (its Prefix set, its Name empty) for    *)
(* each distinct prefix + "text up to and including the first /".  The     *)
(* iterator yields the objects of a page, then its prefixes.               *)
(***************************************************************************)
ObjectItem(s, b, k) == [Prefix |-> <<>>, Name |-> k, Size |-> Len(s[<<b, k>>])]

PrefixItem(pfx) == [Prefix |-> pfx, Name |-> <<>>, Size |-> 0]

RECURSIVE MapSeq(_, _, _)
MapSeq(s, b, ks) ==
    IF ks = <<>> THEN <<>>
    ELSE <<ObjectItem(s, b, Head(ks))>> \o MapSeq(s, b, Tail(ks))

RECURSIVE MapPrefixes(_)
MapPrefixes(ps) ==
    IF ps = <<>> THEN <<>>
    ELSE <<PrefixItem(Head(ps))>> \o MapPrefixes(Tail(ps))

Listing(s, b, prefix, delimited) ==
    LET matching == {x[2] : x \in {y \in DOMAIN s : y[1] = b /\ HasPrefix(y[2], prefix)}}
        rest(k) == Drop(k, Len(prefix) + 1)
        leaves == IF delimited
                  THEN {k \in matching : IndexSlash(rest(k)) = 0}
                  ELSE matching
        groups == IF delimited
                  THEN {prefix \o SubSeq(rest(k), 1, IndexSlash(rest(k))) :
                            k \in matching \ leaves}
                  ELSE {}
    IN MapSeq(s, b, SortStrs(leaves)) \o MapPrefixes(SortStrs(groups))

(***************************************************************************)
(* The client pool (go-commons-pool, NewObjectPoolWithDefaultConfig, with  *)
(* MaxTotal set from the configuration).  BorrowObject takes the first     *)
(* idle client, else has the factory make one while fewer than MaxTotal    *)
(* are alive, else blocks until its context ends.  ReturnObject puts the   *)
(* client first in the idle list unless MaxIdle are idle already.          *)
(* InvalidateObject destroys it.  Both do nothing to a client that is not  *)
(* on loan; the code ignores their error.                                  *)
(***************************************************************************)
\* a variant of MaxTotal: the limit one too high
MaxTotalOneMore == cfg.ClientPoolSize + 1

\* gcs.clientPool.Config.MaxTotal = gcs.Config.ClientPoolSize
MaxTotal == cfg.ClientPoolSize

\* Config.MaxIdle of the default pool configuration
MaxIdle == 8

Live == Len(idle) + Cardinality(allocated)

CanBorrow == idle /= <<>> \/ Live < MaxTotal

\* the client BorrowObject hands out
BorrowHandle == IF idle /= <<>> THEN Head(idle) ELSE created + 1

\* the idle list once BorrowObject has handed out its client
IdleAfterBorrow == IF idle /= <<>> THEN Tail(idle) ELSE idle

PoolBorrow ==
    /\ CanBorrow
    /\ idle' = IdleAfterBorrow
    /\ created' = IF idle /= <<>> THEN created ELSE created + 1
    /\ allocated' = allocated \cup {BorrowHandle}
    /\ UNCHANGED destroyed

PoolReturn(h) ==
    IF h \notin allocated
    THEN UNCHANGED <<idle, allocated, destroyed>>
    ELSE /\ allocated' = allocated \ {h}
         /\ IF Len(idle) >= MaxIdle
            THEN idle' = idle /\ destroyed' = destroyed \cup {h}
            ELSE idle' = <<h>> \o idle /\ UNCHANGED destroyed

PoolInvalidate(h) ==
    IF h \notin allocated
    THEN UNCHANGED <<idle, allocated, destroyed>>
    ELSE /\ allocated' = allocated \ {h}
         /\ destroyed' = destroyed \cup {h}
         /\ UNCHANGED idle

\* what an operation does with its client before it returns
Release(h, how) ==
    CASE how = "return" -> PoolReturn(h)
      [] how = "invalidate" -> PoolInvalidate(h)
      [] OTHER -> UNCHANGED <<idle, allocated, destroyed>>

(***************************************************************************)
(* The callers.  st[p].pc is where caller p stands: "done" between         *)
(* operations (the fields then hold the last operation's result),          *)
(* "release" when its last backend call is over and the pool call that     *)
(* ends the operation is to come, else the backend call it makes next.     *)
(***************************************************************************)
Blank ==
    [pc |-> "done", op |-> "none", key |-> <<>>, h |-> 0, err |-> "nil",
     recursive |-> FALSE, prefix |-> <<>>, fetched |-> FALSE, items |-> <<>>,
     visited |-> <<>>, nexts |-> 0,
     input |-> <<>>, data |-> <<>>, buf |-> <<>>, cerr |-> "nil", closed |-> FALSE,
     closeFailed |-> FALSE, size |-> 0, name |-> <<>>, srcB |-> "", srcK |-> <<>>,
     arg |-> <<>>, total |-> 0, rel |-> "none", todo |-> "none", chunk |-> <<>>,
     wantSet |-> FALSE, want |-> <<>>]

\* arg is the relative path the caller gave; total is the number of items the
\* listing of a Walk held; rel is the pool call the operation ended with:
\* "return" (ReturnObject), "invalidate" (InvalidateObject) or "none"; todo
\* is the pool call an operation at "release" is about to make; chunk is
\* what the copy buffer of a PutFile holds between Read and Write;
\* wantSet and want are lastPut for the key when GetFileReader opened it

\* The start of every operation: BorrowObject, and on its error the return
\* of that error.  rec holds the locals the operation computes next.
Begin(p, rec) ==
    /\ st[p].pc = "done"
    /\ started < MaxOps
    /\ started' = started + 1
    /\ \/ /\ PoolBorrow
          /\ st' = [st EXCEPT ![p] = [rec EXCEPT !.h = BorrowHandle]]
       \/ /\ idle = <<>>
          /\ st' = [st EXCEPT ![p] = [Blank EXCEPT !.op = rec.op, !.err = "ErrBorrow"]]
          /\ UNCHANGED <<idle, allocated, destroyed, created>>
    /\ UNCHANGED <<cfg, store, faulted, lastPut>>

\* the end of the last backend call of an operation: the results are there,
\* the pool call that `how` names is still to be made (with "none" there is
\* no pool call and the operation returns); the iterator and the input
\* stream are the caller's no more, the result fields stay
Finish(p, rec, how) ==
    /\ st' = [st EXCEPT ![p] = [rec EXCEPT !.pc = IF how = "none" THEN "done"
                                                  ELSE "release",
                                           !.items = <<>>, !.fetched = FALSE,
                                           !.input = <<>>, !.todo = how]]
    /\ UNCHANGED <<cfg, created, started, idle, allocated, destroyed>>

\* ReturnObject or InvalidateObject, and the return of the operation
ReleaseClient(p) ==
    /\ st[p].pc = "release"
    /\ st' = [st EXCEPT ![p] = [st[p] EXCEPT !.pc = "done", !.rel = st[p].todo,
                                             !.todo = "none"]]
    /\ Release(st[p].h, st[p].todo)
    /\ UNCHANGED <<cfg, created, started, store, faulted, lastPut>>

Fault(h) == faulted' = faulted \cup {h}

(***************************************************************************)
(* Walk                                                                    *)
(***************************************************************************)
\* the Prefix of the listing query
WalkPrefix(rootPath) == IF rootPath = <<Slash>> THEN <<>> ELSE rootPath \o <<Slash>>

\* the gcsFile handed to process for an item of the listing
WalkEntry(object, rootPath) ==
    IF object.Prefix /= <<>>
    THEN [name |-> TrimPrefix(object.Prefix, rootPath), size |-> 0]
    ELSE [name |-> TrimPrefix(object.Name, rootPath), size |-> object.Size]

\* a variant of WalkRelease: the client goes back to the pool when process
\* returned an error
WalkReleaseKeepOnVisitError(outcome) ==
    CASE outcome \in {"done", "visiterr"} -> "return"
      [] outcome = "next" -> "none"
      [] OTHER -> "invalidate"

\* a variant of WalkRelease: the client goes back to the pool after every
\* item, while the iterator is still in use
WalkReleaseEarly(outcome) ==
    CASE outcome \in {"done", "next"} -> "return"
      [] OTHER -> "invalidate"

\* what Walk does with its client: outcome is "done" (iterator.Done),
\* "nexterr" (another error of it.Next), "visiterr" (process returned an
\* error) or "next" (process returned nil: the loop goes on)
WalkRelease(outcome) ==
    CASE outcome = "done" -> "return"
      [] outcome = "next" -> "none"
      [] OTHER -> "invalidate"

WalkError(outcome) ==
    CASE outcome = "done" -> "nil"
      [] outcome = "nexterr" -> "ErrBackend"
      [] OTHER -> "ErrVisit"

Walk(p, gcsPath, recursive) ==
    LET rootPath == Join(cfg.Path, gcsPath) IN
    Begin(p, [Blank EXCEPT !.pc = "walk", !.op = "Walk", !.key = rootPath,
                           !.prefix = WalkPrefix(rootPath), !.recursive = recursive,
                           !.arg = gcsPath])

\* a variant of WalkStep: a turn hands process the last item of the listing
\* that is left, not the first
WalkStepFromEnd(p) ==
    /\ st[p].pc = "walk"
    /\ LET me == st[p]
           its == IF me.fetched THEN me.items
                  ELSE Listing(store, Bucket, me.prefix, ~me.recursive)
           called == [me EXCEPT !.nexts = me.nexts + 1, !.fetched = TRUE, !.items = its,
                                !.total = IF me.fetched THEN me.total ELSE Len(its)]
       IN \/ /\ Fault(me.h)
             /\ Finish(p, [called EXCEPT !.err = WalkError("nexterr")], WalkRelease("nexterr"))
          \/ /\ its = <<>>
             /\ Finish(p, [called EXCEPT !.err = WalkError("done")], WalkRelease("done"))
             /\ UNCHANGED faulted
          \/ /\ its /= <<>>
             /\ st' = [st EXCEPT ![p] =
                          [called EXCEPT !.pc = "visit",
                                         !.items = SubSeq(its, 1, Len(its) - 1),
                                         !.visited = Append(me.visited,
                                                            WalkEntry(its[Len(its)], me.key))]]
             /\ UNCHANGED <<cfg, created, started, idle, allocated, destroyed, faulted>>
    /\ UNCHANGED <<store, lastPut>>

\* it.Next() of one turn of the loop, and the call of process on the item it
\* gave: the listing is the bucket's at the first Next; visited holds the
\* entries process was called with
WalkStep(p) ==
    /\ st[p].pc = "walk"
    /\ LET me == st[p]
           its == IF me.fetched THEN me.items
                  ELSE Listing(store, Bucket, me.prefix, ~me.recursive)
           called == [me EXCEPT !.nexts = me.nexts + 1, !.fetched = TRUE, !.items = its,
                                !.total = IF me.fetched THEN me.total ELSE Len(its)]
       IN \/ /\ Fault(me.h)
             /\ Finish(p, [called EXCEPT !.err = WalkError("nexterr")], WalkRelease("nexterr"))
          \/ /\ its = <<>>
             /\ Finish(p, [called EXCEPT !.err = WalkError("done")], WalkRelease("done"))
             /\ UNCHANGED faulted
          \/ /\ its /= <<>>
             /\ st' = [st EXCEPT ![p] =
                          [called EXCEPT !.pc = "visit", !.items = Tail(its),
                                         !.visited = Append(me.visited,
                                                            WalkEntry(Head(its), me.key))]]
             /\ UNCHANGED <<cfg, created, started, idle, allocated, destroyed, faulted>>
    /\ UNCHANGED <<store, lastPut>>

\* process returns: with nil the loop goes on to the next it.Next(), with an
\* error Walk ends
WalkVisited(p) ==
    /\ st[p].pc = "visit"
    /\ LET me == st[p] IN
       \/ /\ st' = [st EXCEPT ![p] = [me EXCEPT !.pc = "walk"]]
          /\ Release(me.h, WalkRelease("next"))
          /\ UNCHANGED <<cfg, created, started>>
       \/ Finish(p, [me EXCEPT !.err = WalkError("visiterr")], WalkRelease("visiterr"))
    /\ UNCHANGED <<store, faulted, lastPut>>

(***************************************************************************)
(* GetFileReader                                                           *)
(***************************************************************************)
GetFileReader(p, key) ==
    Begin(p, [Blank EXCEPT !.pc = "open", !.op = "GetFileReader",
                           !.key = Join(cfg.Path, key), !.arg = key])

\* a variant of ReaderRelease: the returned reader keeps the client
ReaderReleaseWithStream(failed) == IF failed THEN "invalidate" ELSE "none"

ReaderRelease(failed) == IF failed THEN "invalidate" ELSE "return"

\* obj.NewReader(ctx); buf is what the returned reader yields
ReaderOpen(p) ==
    /\ st[p].pc = "open"
    /\ LET me == [st[p] EXCEPT !.wantSet = st[p].key \in DOMAIN lastPut,
                                !.want = IF st[p].key \in DOMAIN lastPut
                                         THEN lastPut[st[p].key] ELSE <<>>]
       IN
       \/ /\ Fault(me.h)
          /\ Finish(p, [me EXCEPT !.err = "ErrBackend"], ReaderRelease(TRUE))
       \/ /\ ~Exists(Bucket, me.key)
          /\ Fault(me.h)
          /\ Finish(p, [me EXCEPT !.err = "ErrObjectNotExist"], ReaderRelease(TRUE))
       \/ /\ Exists(Bucket, me.key)
          /\ Finish(p, [me EXCEPT !.buf = store[<<Bucket, me.key>>]], ReaderRelease(FALSE))
          /\ UNCHANGED faulted
    /\ UNCHANGED <<store, lastPut>>

(***************************************************************************)
(* PutFile                                                                 *)
(***************************************************************************)
Min(a, b) == IF a < b THEN a ELSE b

PutFile(p, key, r) ==
    Begin(p, [Blank EXCEPT !.pc = "copy", !.op = "PutFile",
                           !.key = Join(cfg.Path, key), !.input = r, !.data = r,
                           !.arg = key])

\* a variant of PutCopy: an error of the Read invalidates the client at once
\* and PutFile returns with the writer left open
PutCopyReleasing(p) ==
    /\ st[p].pc = "copy"
    /\ LET me == st[p] IN
       \/ /\ me.input = <<>>
          /\ st' = [st EXCEPT ![p] = [me EXCEPT !.pc = "close"]]
          /\ UNCHANGED <<cfg, idle, allocated, destroyed, created, started>>
       \/ /\ Finish(p, [me EXCEPT !.err = "ErrRead", !.cerr = "ErrRead"], "invalidate")
       \/ /\ me.input /= <<>>
          /\ \E nr \in 1..Min(BufSize, Len(me.input)) :
               st' = [st EXCEPT ![p] = [me EXCEPT !.pc = "write",
                                                  !.input = Drop(me.input, nr + 1),
                                                  !.chunk = SubSeq(me.input, 1, nr)]]
          /\ UNCHANGED <<cfg, idle, allocated, destroyed, created, started>>
    /\ UNCHANGED <<store, faulted, lastPut>>

\* r.Read of one turn of io.CopyBuffer(writer, r, buffer): it fills up to
\* BufSize bytes of the buffer (a reader may give fewer), chunk is what it
\* gave.  The copy ends at the end of the input or with the error of the
\* Read.
PutCopy(p) ==
    /\ st[p].pc = "copy"
    /\ LET me == st[p] IN
       \/ /\ me.input = <<>>
          /\ st' = [st EXCEPT ![p] = [me EXCEPT !.pc = "close"]]
       \/ /\ st' = [st EXCEPT ![p] = [me EXCEPT !.pc = "close", !.cerr = "ErrRead"]]
       \/ /\ me.input /= <<>>
          /\ \E nr \in 1..Min(BufSize, Len(me.input)) :
               st' = [st EXCEPT ![p] = [me EXCEPT !.pc = "write",
                                                  !.input = Drop(me.input, nr + 1),
                                                  !.chunk = SubSeq(me.input, 1, nr)]]
    /\ UNCHANGED <<cfg, store, idle, allocated, destroyed, created, started,
                   faulted, lastPut>>

\* writer.Write of the same turn: the writer takes the chunk, or the copy
\* ends with the error of the Write, a backend call that failed on the
\* client.  buf is what the writer has been given.
PutWrite(p) ==
    /\ st[p].pc = "write"
    /\ LET me == st[p] IN
       \/ /\ st' = [st EXCEPT ![p] = [me EXCEPT !.pc = "copy", !.chunk = <<>>,
                                               !.buf = me.buf \o me.chunk]]
          /\ UNCHANGED faulted
       \/ /\ st' = [st EXCEPT ![p] = [me EXCEPT !.pc = "close", !.chunk = <<>>,
                                               !.cerr = "ErrWrite"]]
          /\ Fault(me.h)
    /\ UNCHANGED <<cfg, store, idle, allocated, destroyed, created, started,
                   lastPut>>

\* the deferred function: the client is invalidated if writer.Close failed
PutRelease(closeFailed) == IF closeFailed THEN "invalidate" ELSE "return"

\* what PutFile returns: the error of io.CopyBuffer
PutResult(copyErr, closeFailed) == copyErr

\* The deferred writer.Close(), then the return.  A Close that succeeds
\* makes the bytes written so far the object; one that fails leaves the
\* bucket as it was.
PutClose(p) ==
    /\ st[p].pc = "close"
    /\ LET me == st[p] IN
       \E closeFailed \in BOOLEAN :
          LET ret == PutResult(me.cerr, closeFailed)
              store1 == IF closeFailed THEN store
                        ELSE StorePut(store, Bucket, me.key, me.buf)
          IN /\ store' = store1
             /\ faulted' = IF closeFailed THEN faulted \cup {me.h} ELSE faulted
             /\ lastPut' = IF ret = "nil" THEN Remember(lastPut, me.key, me.data)
                           ELSE IF closeFailed THEN lastPut
                           ELSE Forget(lastPut, Bucket, me.key)
             /\ Finish(p, [me EXCEPT !.err = ret, !.closed = TRUE,
                                     !.closeFailed = closeFailed],
                       PutRelease(closeFailed))

(***************************************************************************)
(* StatFile                                                                *)
(***************************************************************************)
StatFile(p, key) ==
    Begin(p, [Blank EXCEPT !.pc = "stat", !.op = "StatFile",
                           !.key = Join(cfg.Path, key), !.arg = key])

\* what StatFile does with its client: outcome is "ok", "notexist"
\* (storage.ErrObjectNotExist) or "err" (any other error of Attrs)
StatRelease(outcome) ==
    CASE outcome = "ok" -> "return"
      [] outcome = "notexist" -> "none"
      [] OTHER -> "invalidate"

\* Object(...).Attrs(ctx) and the return
StatAttrs(p) ==
    /\ st[p].pc = "stat"
    /\ LET me == st[p] IN
       \/ /\ Fault(me.h)
          /\ Finish(p, [me EXCEPT !.err = "ErrBackend"], StatRelease("err"))
       \/ /\ ~Exists(Bucket, me.key)
          /\ Finish(p, [me EXCEPT !.err = "ErrNotFound"], StatRelease("notexist"))
          /\ UNCHANGED faulted
       \/ /\ Exists(Bucket, me.key)
          /\ Finish(p, [me EXCEPT !.name = me.key,
                                  !.size = Len(store[<<Bucket, me.key>>])],
                    StatRelease("ok"))
          /\ UNCHANGED faulted
    /\ UNCHANGED <<store, lastPut>>

(***************************************************************************)
(* DeleteFile, DeleteFileFromObjectDiskBackup                              *)
(***************************************************************************)
DeleteFile(p, key) ==
    Begin(p, [Blank EXCEPT !.pc = "delete", !.op = "DeleteFile",
                           !.key = Join(cfg.Path, key), !.arg = key])

\* a variant of DeleteFileFromObjectDiskBackup: the key is joined to the
\* primary root
DeleteFromObjectDiskUnderPath(p, key) ==
    Begin(p, [Blank EXCEPT !.pc = "delete", !.op = "DeleteFileFromObjectDiskBackup",
                           !.key = Join(cfg.Path, key), !.arg = key])

DeleteFileFromObjectDiskBackup(p, key) ==
    Begin(p, [Blank EXCEPT !.pc = "delete", !.op = "DeleteFileFromObjectDiskBackup",
                           !.key = Join(cfg.ObjectDiskPath, key), !.arg = key])

DeleteRelease(failed) == IF failed THEN "invalidate" ELSE "return"

\* deleteKey after the borrow: object.Delete(ctx) and the return
DeleteKey(p) ==
    /\ st[p].pc = "delete"
    /\ LET me == st[p] IN
       \/ /\ Fault(me.h)
          /\ Finish(p, [me EXCEPT !.err = "ErrBackend"], DeleteRelease(TRUE))
          /\ UNCHANGED <<store, lastPut>>
       \/ /\ ~Exists(Bucket, me.key)
          /\ Fault(me.h)
          /\ Finish(p, [me EXCEPT !.err = "ErrObjectNotExist"], DeleteRelease(TRUE))
          /\ UNCHANGED <<store, lastPut>>
       \/ /\ Exists(Bucket, me.key)
          /\ store' = StoreDelete(store, Bucket, me.key)
          /\ lastPut' = Forget(lastPut, Bucket, me.key)
          /\ Finish(p, me, DeleteRelease(FALSE))
          /\ UNCHANGED faulted

(***************************************************************************)
(* CopyObject                                                              *)
(***************************************************************************)
\* a variant of CopyObject: the destination is joined to the primary root
CopyObjectUnderPath(p, srcBucket, srcKey, dstKey) ==
    Begin(p, [Blank EXCEPT !.pc = "attrs", !.op = "CopyObject",
                           !.key = Join(cfg.Path, dstKey),
                           !.srcB = srcBucket, !.srcK = srcKey, !.arg = dstKey])

CopyObject(p, srcBucket, srcKey, dstKey) ==
    Begin(p, [Blank EXCEPT !.pc = "attrs", !.op = "CopyObject",
                           !.key = Join(cfg.ObjectDiskPath, dstKey),
                           !.srcB = srcBucket, !.srcK = srcKey, !.arg = dstKey])

CopyRelease(failed) == IF failed THEN "invalidate" ELSE "return"

\* a variant of CopyAttrs: the client goes back to the pool as soon as the
\* attributes are there, and the copy still runs on it
CopyAttrsReturning(p) ==
    /\ st[p].pc = "attrs"
    /\ LET me == st[p] IN
       \/ /\ Fault(me.h)
          /\ Finish(p, [me EXCEPT !.err = "ErrBackend"], CopyRelease(TRUE))
       \/ /\ ~Exists(me.srcB, me.srcK)
          /\ Fault(me.h)
          /\ Finish(p, [me EXCEPT !.err = "ErrObjectNotExist"], CopyRelease(TRUE))
       \/ /\ Exists(me.srcB, me.srcK)
          /\ st' = [st EXCEPT ![p] = [me EXCEPT !.pc = "run",
                                   !.size = Len(store[<<me.srcB, me.srcK>>])]]
          /\ Release(me.h, "return")
          /\ UNCHANGED <<cfg, created, started, faulted>>
    /\ UNCHANGED <<store, lastPut>>

\* src.Attrs(ctx): size holds attrs.Size
CopyAttrs(p) ==
    /\ st[p].pc = "attrs"
    /\ LET me == st[p] IN
       \/ /\ Fault(me.h)
          /\ Finish(p, [me EXCEPT !.err = "ErrBackend"], CopyRelease(TRUE))
       \/ /\ ~Exists(me.srcB, me.srcK)
          /\ Fault(me.h)
          /\ Finish(p, [me EXCEPT !.err = "ErrObjectNotExist"], CopyRelease(TRUE))
       \/ /\ Exists(me.srcB, me.srcK)
          /\ st' = [st EXCEPT ![p] = [me EXCEPT !.pc = "run",
                                   !.size = Len(store[<<me.srcB, me.srcK>>])]]
          /\ UNCHANGED <<idle, allocated, destroyed, cfg, created, started, faulted>>
    /\ UNCHANGED <<store, lastPut>>

\* a variant of CopyResult: nothing of the attributes is returned
CopyResultZero(attrsSize, copiedSize) == 0

\* what CopyObject returns on success
CopyResult(attrsSize, copiedSize) == attrsSize

\* dst.CopierFrom(src).Run(ctx) and the return; buf holds the bytes the
\* backend copied
CopyRun(p) ==
    /\ st[p].pc = "run"
    /\ LET me == st[p] IN
       \/ /\ Fault(me.h)
          /\ Finish(p, [me EXCEPT !.err = "ErrBackend", !.size = 0], CopyRelease(TRUE))
          /\ UNCHANGED <<store, lastPut>>
       \/ /\ ~Exists(me.srcB, me.srcK)
          /\ Fault(me.h)
          /\ Finish(p, [me EXCEPT !.err = "ErrObjectNotExist", !.size = 0],
                    CopyRelease(TRUE))
          /\ UNCHANGED <<store, lastPut>>
       \/ /\ Exists(me.srcB, me.srcK)
          /\ LET content == store[<<me.srcB, me.srcK>>] IN
             /\ store' = StorePut(store, Bucket, me.key, content)
             /\ lastPut' = Forget(lastPut, Bucket, me.key)
             /\ Finish(p, [me EXCEPT !.buf = content,
                                     !.size = CopyResult(me.size, Len(content))],
                       CopyRelease(FALSE))
          /\ UNCHANGED faulted

(***************************************************************************)
(* Specifications.  An initial state is a configuration, a bucket and an   *)
(* empty pool (Connect makes the pool and sets MaxTotal; the factory makes *)
(* clients only on demand).  A step is a step of one caller.               *)
(***************************************************************************)
InitWith(paths, diskPaths, sizes, stores) ==
    /\ cfg \in [Path : paths, ObjectDiskPath : diskPaths, ClientPoolSize : sizes]
    /\ store \in stores
    /\ idle = <<>>
    /\ allocated = {}
    /\ destroyed = {}
    /\ created = 0
    /\ st = [p \in Procs |-> Blank]
    /\ started = 0
    /\ faulted = {}
    /\ lastPut = << >>

\* the operations a caller may start: Walk on the paths walks with the flags
\* recs, CopyObject from the objects srcs, PutFile of the streams datas, all
\* of them but Walk on the paths rels
Calls(p, walks, recs, rels, datas, srcs) ==
    \/ \E k \in walks, rec \in recs : Walk(p, k, rec)
    \/ \E k \in rels : GetFileReader(p, k)
    \/ \E k \in rels, r \in datas : PutFile(p, k, r)
    \/ \E k \in rels : StatFile(p, k)
    \/ \E k \in rels : DeleteFile(p, k)
    \/ \E k \in rels : DeleteFileFromObjectDiskBackup(p, k)
    \/ \E x \in srcs, k \in rels : CopyObject(p, x[1], x[2], k)

\* every step of an operation but writer.Write, which a PutFile of the empty
\* stream never makes
Steps(p) ==
    \/ WalkStep(p)
    \/ WalkVisited(p)
    \/ ReaderOpen(p)
    \/ PutCopy(p)
    \/ PutClose(p)
    \/ StatAttrs(p)
    \/ DeleteKey(p)
    \/ CopyAttrs(p)
    \/ CopyRun(p)
    \/ ReleaseClient(p)

\* the strings "b", "r", "d" and "r/b"
StrB == <<"b">>
StrR == <<"r">>
StrD == <<"d">>
StrRB == <<"r", "/", "b">>

\* every byte string of at most n bytes over {0, 1}
RECURSIVE BytesUpTo(_)
BytesUpTo(n) ==
    IF n = 0 THEN {<<>>}
    ELSE LET shorter == BytesUpTo(n - 1)
         IN shorter \cup {Append(s, b) : s \in {t \in shorter : Len(t) = n - 1}, b \in {0, 1}}

\* The pool under concurrent callers, with one client and with MaxPool
\* clients.  The primary root is r, the object-disk
\* root d, the bucket holds r/b, every operation is on the path b (Walk on
\* the root), PutFile is given the empty stream.
Init ==
    InitWith({StrR}, {StrD}, {1, MaxPool},
             {(<<Bucket, StrRB>> :> <<1, 1>>)})

Next ==
    \E p \in Procs :
        \/ Calls(p, {<<>>}, {FALSE}, {StrB}, {<<>>}, {<<Bucket, StrRB>>})
        \/ Steps(p)

Spec == Init /\ [][Next]_vars

\* Listings: the bucket holds exactly a/x, a/y and b, the primary root is ""
\* or "/", callers walk "" and "a", recursively or not, on a pool of one
\* client.
StrAX == <<"a", "/", "x">>
StrAY == <<"a", "/", "y">>
StrADir == <<"a", "/">>

InitWalk ==
    InitWith({<<>>, <<Slash>>}, {StrD}, {1},
             {(<<Bucket, StrAX>> :> <<1>>) @@ (<<Bucket, StrAY>> :> <<>>)
                  @@ (<<Bucket, StrB>> :> <<1, 1>>)})

NextWalk ==
    \E p \in Procs :
        \/ \E k \in {<<>>, <<"a">>}, rec \in BOOLEAN : Walk(p, k, rec)
        \/ WalkStep(p)
        \/ WalkVisited(p)
        \/ ReleaseClient(p)

SpecWalk == InitWalk /\ [][NextWalk]_vars

\* Uploads and downloads of the path b: input streams of every length up to
\* MaxLen, more than the copy buffer holds; the bucket starts empty or with
\* an older r/b.
InitData ==
    InitWith({StrR}, {StrD}, {1},
             {<< >>, (<<Bucket, StrRB>> :> <<1>>)})

NextData ==
    \E p \in Procs :
        \/ \E r \in BytesUpTo(MaxLen) : PutFile(p, StrB, r)
        \/ GetFileReader(p, StrB)
        \/ PutCopy(p)
        \/ PutWrite(p)
        \/ PutClose(p)
        \/ ReaderOpen(p)
        \/ ReleaseClient(p)

SpecData == InitData /\ [][NextData]_vars

\* every string of at most n characters over "r", "/" and "."
RECURSIVE StrsUpTo(_)
StrsUpTo(n) ==
    IF n = 0 THEN {<<>>}
    ELSE LET shorter == StrsUpTo(n - 1)
         IN shorter \cup {Append(s, c) : s \in {t \in shorter : Len(t) = n - 1},
                                         c \in {"r", Slash, Dot}}

\* The key mapping: both roots and the relative path are any strings of at
\* most MaxStr characters, the bucket is empty, one delete of either kind
\* runs.
InitKeys ==
    InitWith(StrsUpTo(MaxStr), StrsUpTo(MaxStr), {1}, {<< >>})

NextKeys ==
    \E p \in Procs :
        \/ \E k \in StrsUpTo(MaxStr) : started = 0 /\ DeleteFile(p, k)
        \/ \E k \in StrsUpTo(MaxStr) : started = 0 /\ DeleteFileFromObjectDiskBackup(p, k)
        \/ DeleteKey(p)
        \/ ReleaseClient(p)

SpecKeys == InitKeys /\ [][NextKeys]_vars

\* the string "r/r"
StrRR == <<"r", Slash, "r">>

\* One operation of any kind on any relative path of at most MaxStr
\* characters, "." and ".." elements included; the primary root is r or
\* empty, the secondary root is d, the bucket holds r/r, PutFile is given a
\* stream of one byte.
InitRoots ==
    InitWith({StrR, <<>>}, {StrD}, {1}, {(<<Bucket, StrRR>> :> <<1>>)})

NextRoots ==
    \E p \in Procs :
        \/ started = 0 /\ Calls(p, StrsUpTo(MaxStr), {FALSE}, StrsUpTo(MaxStr),
                                {<<0>>}, {<<Bucket, StrRR>>})
        \/ Steps(p)
        \/ PutWrite(p)

SpecRoots == InitRoots /\ [][NextRoots]_vars

(***************************************************************************)
(* Properties.                                                             *)
(***************************************************************************)
Active(p) == st[p].pc /= "done"

\* caller p has returned from an operation that had borrowed a client
Returned(p) == st[p].pc = "done" /\ st[p].h /= 0

\* client h is on loan to an operation that is running
HeldByActive(h) == \E q \in Procs : Active(q) /\ st[q].h = h

InIdle(h) == \E i \in 1..Len(idle) : idle[i] = h

\* C1: StatFile on a missing key returns ErrNotFound and its client went
\* back to the pool: it was not destroyed and it is not left on loan (when it
\* is on loan, a running operation has borrowed it again), so the pool can
\* still serve a later operation.
C1_StatMissingReturnsClient ==
    \A p \in Procs :
        (Returned(p) /\ st[p].op = "StatFile" /\ st[p].err \notin {"nil", "ErrBackend"})
        => /\ st[p].err = "ErrNotFound"
           /\ st[p].rel = "return"
           /\ st[p].h \in allocated => HeldByActive(st[p].h)

C3_CloseFailureIsReturned ==
    \A p \in Procs :
        (Returned(p) /\ st[p].op = "PutFile" /\ st[p].closeFailed)
        => st[p].rel = "invalidate" /\ st[p].err /= "nil"

\* C4: when an operation that had borrowed a client has returned, the client
\* is no longer on loan to it: the operation has returned or invalidated it.
C4_NoClientLeftBorrowed ==
    \A p \in Procs :
        Returned(p) =>
            /\ st[p].rel \in {"return", "invalidate"}
            /\ st[p].h \in allocated => HeldByActive(st[p].h)

\* C5: the clients alive, on loan plus idle, never outnumber the configured
\* pool size.
C5_LiveWithinPoolSize == Live <= cfg.ClientPoolSize

\* C5's case: every client the pool may have is on loan to a running
\* operation, and another caller is free to start an operation.
C5_Witness ==
    /\ Cardinality(allocated) = cfg.ClientPoolSize
    /\ \A h \in allocated : HeldByActive(h)
    /\ \E p \in Procs : ~Active(p)
    /\ started < MaxOps

\* C6: no client is on loan to two running operations, and the client of a
\* running operation is on loan: it is not idle and not destroyed.
C6_ExclusiveBorrow ==
    /\ \A p, q \in Procs :
          (p /= q /\ Active(p) /\ Active(q)) => st[p].h /= st[q].h
    /\ \A p \in Procs :
          Active(p) => /\ st[p].h \in allocated
                       /\ ~InIdle(st[p].h)
                       /\ st[p].h \notin destroyed

\* C6's case: two operations run at once, each on a client of its own.
C6_Witness ==
    \E p, q \in Procs :
        /\ p /= q /\ Active(p) /\ Active(q)
        /\ {st[p].h, st[q].h} \subseteq allocated

\* C7: a GetFileReader of a key for which a PutFile returned nil, with no
\* other write to the key since, opens the object and reads exactly the
\* data that PutFile was given.
C7_RoundTrip ==
    \A p \in Procs :
        (Returned(p) /\ st[p].op = "GetFileReader" /\ st[p].wantSet
                     /\ st[p].err /= "ErrBackend")
        => st[p].err = "nil" /\ st[p].buf = st[p].want

Names(entries) == {entries[i].name : i \in 1..Len(entries)}

\* C8: over the keys a/x, a/y, b, a Walk of the relative path "" that ended
\* with success listed with an empty prefix and visited, when not recursive,
\* exactly the two entries a/ and b, and when recursive exactly a/x, a/y, b.
C8_WalkOfEmptyPath ==
    \A p \in Procs :
        (Returned(p) /\ st[p].op = "Walk" /\ st[p].err = "nil" /\ st[p].arg = <<>>)
        => /\ st[p].prefix = <<>>
           /\ st[p].recursive => /\ Len(st[p].visited) = 3
                                 /\ Names(st[p].visited) = {StrAX, StrAY, StrB}
           /\ ~st[p].recursive => /\ Len(st[p].visited) = 2
                                  /\ Names(st[p].visited) = {StrADir, StrB}

\* C9 as claimed: a CopyObject that succeeds returns the size of the object
\* it copied and leaves that object's bytes at the destination, whatever ran
\* between its attribute fetch and its copy.
C9_CopyReturnsCopiedSize ==
    [][\A p \in Procs :
          (st[p].pc = "run" /\ st'[p].pc = "release" /\ st'[p].err = "nil")
          => /\ st'[p].size = Len(store[<<st[p].srcB, st[p].srcK>>])
             /\ store'[<<Bucket, st[p].key>>] = store[<<st[p].srcB, st[p].srcK>>]]_vars

\* C9, amended: a CopyObject that succeeds leaves at the destination the
\* bytes the source held at the copy and returns the size the source had at
\* the attribute fetch, which is the size of the bytes copied when the source
\* had that size still.
C9_CopyReturnsAttrsSize ==
    [][\A p \in Procs :
          (st[p].pc = "run" /\ st'[p].pc = "release" /\ st'[p].err = "nil")
          => /\ st'[p].size = st[p].size
             /\ st[p].size = Len(store[<<st[p].srcB, st[p].srcK>>])
                    => st'[p].size = Len(store'[<<Bucket, st[p].key>>])
             /\ store'[<<Bucket, st[p].key>>] = store[<<st[p].srcB, st[p].srcK>>]]_vars

\* C9's case: a CopyObject has succeeded, returned the size of the two bytes
\* it copied, and the destination holds them.
C9_Witness ==
    \E p \in Procs :
        /\ Returned(p) /\ st[p].op = "CopyObject" /\ st[p].err = "nil"
        /\ st[p].size = 2 /\ Len(st[p].buf) = 2
        /\ Exists(Bucket, st[p].key) /\ store[<<Bucket, st[p].key>>] = st[p].buf

\* C10: a Walk ends in one of three ways.  On iterator.Done it returns nil
\* and its client went back to the pool, every item having been visited.  On
\* another error of the iterator it returns that error, its client was
\* invalidated, and process was not called for the failed fetch.  On an
\* error of process it returns that error, its client was invalidated, and
\* nothing was fetched after the item whose visit failed.
C10_WalkEnds ==
    \A p \in Procs :
        (Returned(p) /\ st[p].op = "Walk") =>
            LET me == st[p] IN
            /\ me.err \in {"nil", "ErrBackend", "ErrVisit"}
            /\ me.err = "nil" => /\ me.rel = "return"
                                 /\ Len(me.visited) = me.total
                                 /\ me.nexts = me.total + 1
            /\ me.err = "ErrBackend" => /\ me.rel = "invalidate"
                                        /\ me.h \in destroyed
                                        /\ me.nexts = Len(me.visited) + 1
            /\ me.err = "ErrVisit" => /\ me.rel = "invalidate"
                                      /\ me.h \in destroyed
                                      /\ me.nexts = Len(me.visited)
                                      /\ Len(me.visited) >= 1

\* C10's case: process failed on the second of three items.
C10_Witness ==
    \E p \in Procs :
        /\ Returned(p) /\ st[p].op = "Walk" /\ st[p].err = "ErrVisit"
        /\ st[p].total = 3 /\ Len(st[p].visited) = 2

\* s has an element ".." that starts at index i or later
HasDotDotFrom(s, i) ==
    \E j \in i..Len(s) - 1 :
        /\ s[j] = Dot /\ s[j + 1] = Dot
        /\ j = 1 \/ s[j - 1] = Slash
        /\ j + 1 = Len(s) \/ s[j + 2] = Slash

\* s has an element ".."
HasDotDot(s) == HasDotDotFrom(s, 1)

\* s is a relative path: it does not start at "/"
IsRelative(s) == s = <<>> \/ s[1] /= Slash

\* the key of the other kind of delete for the same relative path
OtherKey(me) ==
    IF me.op = "DeleteFile" THEN Join(cfg.ObjectDiskPath, me.arg)
    ELSE Join(cfg.Path, me.arg)

\* caller p runs or has run a delete that got its client and computed its key
Deleting(p) ==
    /\ st[p].op \in {"DeleteFile", "DeleteFileFromObjectDiskBackup"}
    /\ st[p].h /= 0

\* C11 as claimed: when the two configured roots are not the same string,
\* the primary and the secondary key of a relative path differ.
C11_KeysDifferForDistinctRoots ==
    \A p \in Procs :
        (Deleting(p) /\ IsRelative(st[p].arg) /\ cfg.Path /= cfg.ObjectDiskPath)
        => st[p].key /= OtherKey(st[p])

\* C11, amended: when the two configured roots differ after path.Clean, the
\* primary and the secondary key of a relative path without a ".." element
\* differ; two non-empty roots that path.Clean makes equal (r and r/, / and
\* //) give one and the same key.
C11_KeysDifferForCleanRoots ==
    \A p \in Procs :
        (Deleting(p) /\ IsRelative(st[p].arg)) =>
            /\ (~HasDotDot(st[p].arg) /\ Clean(cfg.Path) /= Clean(cfg.ObjectDiskPath))
                  => st[p].key /= OtherKey(st[p])
            /\ (cfg.Path /= <<>> /\ cfg.ObjectDiskPath /= <<>>
                    /\ Clean(cfg.Path) = Clean(cfg.ObjectDiskPath))
                  => st[p].key = OtherKey(st[p])

\* C11's case: the roots r and rr, the relative path r, the secondary key.
C11_Witness ==
    \E p \in Procs :
        /\ Deleting(p) /\ st[p].op = "DeleteFileFromObjectDiskBackup"
        /\ cfg.Path = <<"r">> /\ cfg.ObjectDiskPath = <<"r", "r">>
        /\ st[p].arg = <<"r">>
        /\ st[p].key = <<"r", "r", "/", "r">>
        /\ OtherKey(st[p]) = <<"r", "/", "r">>

\* caller p has a reader that GetFileReader returned; the caller has not
\* closed it
HasReader(p) ==
    st[p].op = "GetFileReader" /\ st[p].pc = "done" /\ st[p].err = "nil"

\* C12: at the step at which GetFileReader returns a reader, the client it
\* borrowed is idle in the pool and was released by ReturnObject: the reader
\* does not keep it.
C12_ReaderLeavesClientIdle ==
    [][\A p \in Procs :
          (Active(p) /\ HasReader(p)')
          => (InIdle(st[p].h)' /\ st'[p].rel = "return" /\ st[p].h \notin destroyed')]_vars

\* C12's case: the pool holds one client, p has an unclosed reader and q runs
\* an operation on the client that p's GetFileReader had borrowed.
C12_Witness ==
    \E p, q \in Procs :
        /\ p /= q /\ cfg.ClientPoolSize = 1
        /\ HasReader(p) /\ st[p].rel = "return"
        /\ Active(q) /\ st[q].h = st[p].h

\* C13: a PutFile that borrowed a client keeps it on loan until writer.Close
\* has run: while the writer is not closed the operation is running, no
\* release was made and the client is neither idle nor destroyed; a PutFile
\* that has returned has closed its writer and then released the client once.
C13_PutHoldsClientUntilClose ==
    \A p \in Procs :
        (st[p].op = "PutFile" /\ st[p].h /= 0) =>
            /\ ~st[p].closed => /\ Active(p) /\ st[p].rel = "none"
                                /\ ~InIdle(st[p].h) /\ st[p].h \notin destroyed
            /\ ~Active(p) => st[p].closed /\ st[p].rel \in {"return", "invalidate"}

\* C13's case: a PutFile whose writer took a byte and whose next Read failed
\* has returned: its writer was closed, Close failed too, and then its
\* client was invalidated.
C13_Witness ==
    \E p \in Procs :
        /\ st[p].op = "PutFile" /\ st[p].h /= 0 /\ ~Active(p)
        /\ st[p].cerr = "ErrRead" /\ Len(st[p].buf) = 1
        /\ st[p].closed /\ st[p].closeFailed
        /\ st[p].rel = "invalidate" /\ st[p].h \in destroyed

\* C14: when PutFile returns the error of a copy that failed part-way (the
\* input stream failed after some, not all, of its bytes had been written),
\* the step that closes the writer and returns leaves the bucket as it was:
\* no object is made of the bytes written so far.
C14_FailedCopyLeavesNoObject ==
    [][\A p \in Procs :
          (/\ st[p].op = "PutFile" /\ st[p].pc = "close" /\ st'[p].pc = "release"
           /\ st'[p].err = "ErrRead"
           /\ st[p].buf /= <<>> /\ Len(st[p].buf) < Len(st[p].data))
          => store' = store]_vars

\* the gcsFile of every item of a listing, in the order of the listing
EntriesOf(its, rootPath) == [i \in 1..Len(its) |-> WalkEntry(its[i], rootPath)]

\* the items the iterator of p's Walk gives, first to last (no operation of
\* SpecWalk changes the bucket)
Cursor(p) == Listing(store, Bucket, st[p].prefix, ~st[p].recursive)

\* C15: process is called once for each item the iterator gives, in the
\* iterator's order: what a Walk has visited is the first items of the
\* listing, one entry each, with no item skipped, repeated or moved; the
\* items still to come are the rest; a Walk that returned nil visited all;
\* a Walk that returned an error made no visit after the failing call.
C15_VisitsFollowCursor ==
    \A p \in Procs :
        (st[p].op = "Walk" /\ st[p].h /= 0) =>
            LET me == st[p]
                all == EntriesOf(Cursor(p), me.key)
                n == Len(me.visited)
            IN /\ n <= Len(all)
               /\ me.visited = SubSeq(all, 1, n)
               /\ (Active(p) /\ me.fetched)
                     => me.items = SubSeq(Cursor(p), n + 1, Len(Cursor(p)))
               /\ (~Active(p) /\ me.err = "nil") => (n = Len(all) /\ me.nexts = n + 1)
               /\ (~Active(p) /\ me.err = "ErrVisit") => (n >= 1 /\ me.nexts = n)
               /\ (~Active(p) /\ me.err = "ErrBackend") => me.nexts = n + 1

\* C15's case: a Walk over a listing of two items or more that has visited
\* two of them and then stopped at an error of process.
C15_Witness ==
    \E p \in Procs :
        /\ st[p].op = "Walk" /\ ~Active(p) /\ st[p].err = "ErrVisit"
        /\ Len(st[p].visited) = 2 /\ Len(Cursor(p)) > 2
        /\ st[p].visited[1] /= st[p].visited[2]

\* the backend key of an item of a listing
ItemKey(object) == IF object.Prefix /= <<>> THEN object.Prefix ELSE object.Name

\* C16: the name of every entry handed to process by Walk is the backend key
\* of the item without the prefix of the listing (the walked root and a
\* separator), and the name StatFile returns is the backend key without the
\* primary root and a separator: the object at R/x is named x.
C16_NamesAreRelativeToRoot ==
    \A p \in Procs :
        /\ (st[p].op = "Walk" /\ st[p].h /= 0) =>
               \A i \in 1..Len(st[p].visited) :
                   st[p].visited[i].name = TrimPrefix(ItemKey(Cursor(p)[i]), st[p].prefix)
        /\ (st[p].op = "StatFile" /\ ~Active(p) /\ st[p].err = "nil") =>
               st[p].name = TrimPrefix(st[p].key, WalkPrefix(Join(cfg.Path, <<>>)))

\* the root that the operation of record me joins its path to
RootOf(me) ==
    IF me.op \in {"DeleteFileFromObjectDiskBackup", "CopyObject"}
    THEN cfg.ObjectDiskPath ELSE cfg.Path

\* key is the root or lies below it
Under(key, root) ==
    LET c == Clean(root) IN
    CASE c = <<Dot>> -> IsRelative(key) /\ ~HasDotDot(key)
      [] c = <<Slash>> -> ~IsRelative(key)
      [] OTHER -> key = c \/ HasPrefix(key, c \o <<Slash>>)

\* caller p runs or has run an operation that got its client and computed
\* its key
Keyed(p) == st[p].op /= "none" /\ st[p].h /= 0

\* C17 as claimed: the key of every operation on a relative path is the
\* root of its kind or lies below it.
C17_KeyNeverLeavesRoot ==
    \A p \in Procs :
        (Keyed(p) /\ IsRelative(st[p].arg)) => Under(st[p].key, RootOf(st[p]))

\* C17, amended: Walk, GetFileReader, PutFile, StatFile and DeleteFile use
\* the join of Config.Path and their path, DeleteFileFromObjectDiskBackup and
\* the destination of CopyObject the join of Config.ObjectDiskPath and
\* theirs; CopyObject reads the source bucket and key it was given; the
\* bucket changes at the key of the operation only; the key of a relative
\* path with no ".." element is the root of its kind or lies below it.
C17_RootsPerKind ==
    /\ \A p \in Procs :
          Keyed(p) =>
             /\ st[p].key = Join(RootOf(st[p]), st[p].arg)
             /\ st[p].op = "CopyObject" => (st[p].srcB = Bucket /\ st[p].srcK = StrRR)
             /\ (IsRelative(st[p].arg) /\ ~HasDotDot(st[p].arg))
                   => Under(st[p].key, RootOf(st[p]))
    /\ \A k \in DOMAIN store :
          k = <<Bucket, StrRR>> \/
             \E p \in Procs : /\ Keyed(p) /\ st[p].op \in {"PutFile", "CopyObject"}
                              /\ k = <<Bucket, st[p].key>>
    /\ <<Bucket, StrRR>> \notin DOMAIN store =>
          \E p \in Procs : /\ Keyed(p) /\ st[p].key = StrRR
                           /\ st[p].op \in {"DeleteFile", "DeleteFileFromObjectDiskBackup"}

\* C17's case: with the roots r and d, a CopyObject to the path r has
\* copied r/r to d/r.
C17_Witness ==
    \E p \in Procs :
        /\ st[p].op = "CopyObject" /\ ~Active(p) /\ st[p].err = "nil"
        /\ cfg.Path = StrR /\ cfg.ObjectDiskPath = StrD
        /\ st[p].arg = <<"r">> /\ st[p].key = <<"d", Slash, "r">>
        /\ <<Bucket, st[p].key>> \in DOMAIN store

\* nothing in the record of p tells of a call to the backend
NoBackendCall(p) ==
    /\ st[p].nexts = 0 /\ st[p].visited = <<>> /\ ~st[p].fetched
    /\ ~st[p].closed /\ st[p].buf = <<>> /\ st[p].name = <<>> /\ st[p].size = 0

\* client h is idle in the pool after the step
IdleNext(h) == \E i \in 1..Len(idle') : idle'[i] = h

\* C18: an operation that borrowed a client releases it at most once, at the
\* step at which it returns: while it runs, its client is neither idle nor
\* destroyed and no release is recorded; at its last step the pool does what
\* the one release says (ReturnObject makes the client idle,
\* InvalidateObject destroys it, none leaves it on loan); after it, the
\* operation takes no step.  An operation whose borrow failed returns that
\* error at once: no client, no release, no call to the backend, pool and
\* bucket as they were.
C18_OneReleaseAtTheEnd ==
    [][\A p \in Procs :
          /\ (Active(p)' /\ st'[p].h /= 0) =>
                /\ st'[p].rel = "none"
                /\ ~IdleNext(st'[p].h) /\ st'[p].h \notin destroyed'
          /\ (Active(p) /\ ~Active(p)') =>
                /\ st'[p].h = st[p].h
                /\ st'[p].rel = "return" => (IdleNext(st[p].h) /\ st[p].h \notin destroyed')
                /\ st'[p].rel = "invalidate"
                      => (~IdleNext(st[p].h) /\ st[p].h \in destroyed')
                /\ st'[p].rel = "none"
                      => (~IdleNext(st[p].h) /\ st[p].h \notin destroyed')
          /\ (~Active(p) /\ ~Active(p)' /\ st'[p] /= st[p]) =>
                /\ st'[p].h = 0 /\ st'[p].err = "ErrBorrow" /\ st'[p].rel = "none"
                /\ NoBackendCall(p)'
                /\ UNCHANGED <<idle, allocated, destroyed, store>>]_vars

\* C18's case: one caller was refused a client while another, whose Walk
\* went through an item and then failed, has released its client once.
C18_Witness ==
    \E p, q \in Procs :
        /\ st[p].op /= "none" /\ st[p].h = 0 /\ st[p].err = "ErrBorrow"
        /\ st[q].op = "Walk" /\ st[q].h /= 0 /\ ~Active(q)
        /\ Len(st[q].visited) >= 1 /\ st[q].rel = "invalidate"
        /\ st[q].h \in destroyed

====
